---- MODULE Spec2Model ----
(***************************************************************************)
(* Model of the score-integrity core of beat-the-chain:                    *)
(*   - POST /api/game-results  (route.ts 14-209): validation gates, then   *)
(*     SELECT existing row, then UPDATE / no-op / INSERT;                  *)
(*   - POST start-run          (route.ts 217-298): issue a run session;    *)
(*   - Redeem of a run session (spec section 4.1; not present in src/);    *)
(*   - calculateScore          (server-scoring.ts 1-22), exact rationals.  *)
(*   - getLeaderboard          (scores.ts 146-241): the ranked read.       *)
(* Numbers are exact integers / rationals; IEEE rounding is not modelled.  *)
(***************************************************************************)
EXTENDS Integers, Sequences, FiniteSets, TLC

VARIABLES
    game_results,   \* table game_results: set of rows
    pc,             \* per submit request: position in the handler
    body,           \* per submit request: the parsed JSON body
    existingRecord, \* per submit request: result of the SELECT (or NoRecord)
    response,       \* per submit request: the JSON response (or NoResponse)
    game_runs,      \* table game_runs: set of run-session rows
    startRequest,   \* body of the latest start-run request
    startResponse,  \* response of the latest start-run request
    now,            \* wall clock, in seconds
    rpc,            \* per redeem request: position
    rreq,           \* per redeem request: [run_id, token] presented
    rresult,        \* per redeem request: outcome (NULL while pending)
    leaderboard,    \* the latest getLeaderboard call: its arguments and result
    scoreCall,      \* the latest calculateScore call: its arguments and result
    rankCalls,       \* the calculateRank calls of a behaviour: arguments and results
    game            \* the typing game in the browser (stateRef and the results of endGame)

vars == <<game_results, pc, body, existingRecord, response,
          game_runs, startRequest, startResponse, now, rpc, rreq, rresult, leaderboard,
          scoreCall, rankCalls, game>>

submitVars == <<game_results, pc, body, existingRecord, response>>
runVars    == <<game_runs, startRequest, startResponse, now, rpc, rreq, rresult>>
queryVars  == <<leaderboard>>
scoringVars == <<scoreCall, rankCalls>>
clientVars == <<game>>

NULL == "null"          \* null string (no error, no rank)
NoId == 0               \* undefined id (row ids start at 1)
NullTime == -1          \* null timestamp
NoMode == -1            \* game_mode undefined

----------------------------------------------------------------------------
(* Bounds of the model *)

MaxRequests == 3    \* submit requests over a behaviour (numbered by arrival)
MaxRuns == 1    \* run sessions issued over a behaviour
MaxRedeems == 2    \* redeem requests over a behaviour
MaxTime == 33   \* the clock stops here
MaxIssueAt == 0    \* sessions are issued while now <= MaxIssueAt
MaxRows == 3    \* rows of the tables the leaderboard is read from
MaxErrors == 6    \* error positions of a game handed to calculateScore
MaxLetters == 3    \* letters of the sentences typed key by key
MaxMistakes == 3    \* error positions of the games that are one key from their end

Requests == 1..MaxRequests
Redeems  == 1..MaxRedeems

----------------------------------------------------------------------------
(* Input data *)

Alice == <<"a", "l", "i", "c", "e">>
Bob   == <<"b", "o", "b">>
Carol == <<"c", "a", "r", "o", "l">>
Al    == <<"a", "l">>            \* too short for the name policy
Empty == <<>>                    \* missing player_name (falsy)

Lower  == {"a","b","c","d","e","f","g","h","i","j","k","l","m",
           "n","o","p","q","r","s","t","u","v","w","x","y","z"}
Upper  == {"A","B","C","D","E","F","G","H","I","J","K","L","M",
           "N","O","P","Q","R","S","T","U","V","W","X","Y","Z"}
Digits == {"0","1","2","3","4","5","6","7","8","9"}

ALLOWED_RANKS == {"Grandmaster of Speed", "Turbo Typelord", "Chain Slayer",
                  "Speed Operator", "Latency Warrior", "Typing Rookie"}

\* /^[a-zA-Z0-9._-]{3,50}$/
nameRegex(name) ==
    /\ Len(name) >= 3
    /\ Len(name) <= 50
    /\ \A i \in 1..Len(name) : name[i] \in Lower \cup Upper \cup Digits \cup {".", "_", "-"}

\* Bodies a client may POST to /api/game-results (type GameResult plus the
\* error counts of GameResultSubmission, which the handler never reads):
\* bodies that pass every gate, and bodies with one offending field.
GoodBody(name, mode, score) ==
    [ player_name   |-> name,
      game_mode     |-> mode,
      score         |-> score,
      lps           |-> 10,
      accuracy      |-> 100,
      rank          |-> "Chain Slayer",
      time          |-> 20,
      ms_per_letter |-> 100,
      isTwitterUser |-> FALSE,
      total_letters      |-> 60,
      uncorrected_errors |-> 0,
      corrected_errors   |-> 0 ]

\* three scores for one key, and two more keys sharing its name or its mode
GoodBodies ==
    {GoodBody(Alice, 15, x) : x \in {10, 12, 14}}
    \cup {GoodBody(Alice, 30, 12), GoodBody(Bob, 15, 12)}

BaseBody == GoodBody(Alice, 15, 12)

BadBodies ==
    {[BaseBody EXCEPT !.player_name = n] : n \in {Al, Empty}}
    \cup {[BaseBody EXCEPT !.game_mode = m] : m \in {45, NoMode}}
    \cup {[BaseBody EXCEPT !.score = x] : x \in {-1, 8, 16, 10001}}
    \cup {[BaseBody EXCEPT !.lps = x] : x \in {-1, 0, 101}}
    \cup {[BaseBody EXCEPT !.accuracy = x] : x \in {-1, 101}}
    \cup {[BaseBody EXCEPT !.rank = x] : x \in {NULL, "Hacker"}}
    \cup {[BaseBody EXCEPT !.ms_per_letter = x] : x \in {-1, 89, 111, 1000001}}

Bodies == GoodBodies \cup BadBodies

----------------------------------------------------------------------------
(* Exact rational arithmetic for calculateScore *)

RECURSIVE GCD(_, _)
GCD(a, b) == IF b = 0 THEN a ELSE GCD(b, a % b)

\* a fraction in lowest terms (denominators positive), so that products
\* stay within the integers of the checker
Rat(n, d) ==
    LET g == GCD(IF n < 0 THEN 0 - n ELSE n, d)
    IN  [num |-> n \div g, den |-> d \div g]
RMul(a, b) == Rat(a.num * b.num, a.den * b.den)
RSub(a, b) == Rat(a.num * b.den - b.num * a.den, a.den * b.den)
RAdd(a, b) == Rat(a.num * b.den + b.num * a.den, a.den * b.den)
\* an/ad <= bn/bd for positive denominators, by whole parts and then the
\* reciprocals of the fractional parts, so that no product is formed
RECURSIVE LeqParts(_, _, _, _)
LeqParts(an, ad, bn, bd) ==
    IF an \div ad # bn \div bd THEN an \div ad < bn \div bd
    ELSE IF an % ad = 0 THEN TRUE
    ELSE IF bn % bd = 0 THEN FALSE
    ELSE LeqParts(bd, bn % bd, ad, an % ad)
RLeq(a, b) == LeqParts(a.num, a.den, b.num, b.den)
RMin(a, b) == IF RLeq(a, b) THEN a ELSE b
REqInt(a, k) == a.num = k * a.den

\* calculateScore without the cap of 0.5 on the error penalty
calculateScore_UncappedPenalty(lps, accuracy, gameMode, totalErrors, correctedErrors, totalLetters) ==
    LET correctionRate  == IF totalErrors > 0 THEN Rat(correctedErrors, totalErrors) ELSE Rat(0, 1)
        errorRate       == IF totalLetters > 0 THEN Rat(totalErrors, totalLetters) ELSE Rat(0, 1)
        correctionBonus == RMul(RMul(correctionRate,
                                     RSub(Rat(1, 1), RMul(errorRate, Rat(10, 1)))),
                                Rat(15, 100))
        accuracyDecimal == Rat(accuracy, 100)
        baseScore       == RMul(Rat(lps, 1), RMul(accuracyDecimal, accuracyDecimal))
        scoreWithCorrection == RMul(baseScore, RAdd(Rat(1, 1), correctionBonus))
        gameModeMultiplier  == IF gameMode = 30 THEN Rat(122, 100) ELSE Rat(1, 1)
    IN  RMul(scoreWithCorrection, gameModeMultiplier)

\* server-scoring.ts calculateScore; lps and accuracy are fractions
calculateScoreOf(lps, accuracy, gameMode, totalErrors, correctedErrors, totalLetters) ==
    LET correctionRate  == IF totalErrors > 0 THEN Rat(correctedErrors, totalErrors) ELSE Rat(0, 1)
        errorRate       == IF totalLetters > 0 THEN Rat(totalErrors, totalLetters) ELSE Rat(0, 1)
        correctionBonus == RMul(RMul(correctionRate,
                                     RSub(Rat(1, 1), RMin(RMul(errorRate, Rat(10, 1)), Rat(1, 2)))),
                                Rat(15, 100))
        accuracyDecimal == RMul(accuracy, Rat(1, 100))
        baseScore       == RMul(lps, RMul(accuracyDecimal, accuracyDecimal))
        scoreWithCorrection == RMul(baseScore, RAdd(Rat(1, 1), correctionBonus))
        gameModeMultiplier  == IF gameMode = 30 THEN Rat(122, 100) ELSE Rat(1, 1)
    IN  RMul(scoreWithCorrection, gameModeMultiplier)

\* calculateScore with a multiplier of 2 for the 30-word mode
calculateScore_DoubledFor30(lps, accuracy, gameMode, totalErrors, correctedErrors, totalLetters) ==
    RMul(calculateScoreOf(Rat(lps, 1), Rat(accuracy, 1), 15, totalErrors, correctedErrors,
                          totalLetters),
         IF gameMode = 30 THEN Rat(2, 1) ELSE Rat(1, 1))

\* server-scoring.ts calculateScore, called with whole lps and accuracy
calculateScore(lps, accuracy, gameMode, totalErrors, correctedErrors, totalLetters) ==
    calculateScoreOf(Rat(lps, 1), Rat(accuracy, 1), gameMode, totalErrors, correctedErrors,
                     totalLetters)

\* calculateRank with the accuracy floor of the top tier left out
calculateRank_NoTopAccuracy(score, accuracy) ==
    IF RLeq(Rat(14, 1), score) THEN "Grandmaster of Speed"
    ELSE IF RLeq(Rat(11, 1), score) /\ accuracy >= 95 THEN "Turbo Typelord"
    ELSE IF RLeq(Rat(7, 1), score) /\ accuracy >= 90 THEN "Chain Slayer"
    ELSE IF RLeq(Rat(4, 1), score) /\ accuracy >= 85 THEN "Speed Operator"
    ELSE IF RLeq(Rat(1, 1), score) /\ accuracy >= 80 THEN "Latency Warrior"
    ELSE "Typing Rookie"

\* calculateRank with the score test of the third tier turned around
calculateRank_FlippedTest(score, accuracy) ==
    IF RLeq(Rat(14, 1), score) /\ accuracy >= 98 THEN "Grandmaster of Speed"
    ELSE IF RLeq(Rat(11, 1), score) /\ accuracy >= 95 THEN "Turbo Typelord"
    ELSE IF RLeq(score, Rat(7, 1)) /\ accuracy >= 90 THEN "Chain Slayer"
    ELSE IF RLeq(Rat(4, 1), score) /\ accuracy >= 85 THEN "Speed Operator"
    ELSE IF RLeq(Rat(1, 1), score) /\ accuracy >= 80 THEN "Latency Warrior"
    ELSE "Typing Rookie"

\* server-scoring.ts calculateRank; score and accuracy are fractions.  The
\* rank names are written without their trailing emoji, here as in
\* ALLOWED_RANKS.
calculateRankOf(score, accuracy) ==
    IF RLeq(Rat(14, 1), score) /\ RLeq(Rat(98, 1), accuracy) THEN "Grandmaster of Speed"
    ELSE IF RLeq(Rat(11, 1), score) /\ RLeq(Rat(95, 1), accuracy) THEN "Turbo Typelord"
    ELSE IF RLeq(Rat(7, 1), score) /\ RLeq(Rat(90, 1), accuracy) THEN "Chain Slayer"
    ELSE IF RLeq(Rat(4, 1), score) /\ RLeq(Rat(85, 1), accuracy) THEN "Speed Operator"
    ELSE IF RLeq(Rat(1, 1), score) /\ RLeq(Rat(80, 1), accuracy) THEN "Latency Warrior"
    ELSE "Typing Rookie"

\* server-scoring.ts calculateRank, called with a whole accuracy
calculateRank(score, accuracy) == calculateRankOf(score, Rat(accuracy, 1))

\* no call of calculateScore is under way
NoScoreCall ==
    [lps |-> 0, accuracy |-> 0, gameMode |-> NoMode, totalErrors |-> 0, correctedErrors |-> 0,
     totalLetters |-> 0, finalScore |-> Rat(0, 1), returned |-> FALSE]

\* the arguments calculateScore is called with: lps and accuracy at the ends
\* and inside their ranges, both modes, and error counts with
\* correctedErrors <= totalErrors <= totalLetters on either side of
\* errorRate * 10 = 0.5
ScoreLps        == {0, 1, 10, 60, 100}
ScoreAccuracies == {0, 50, 95, 100}
ScoreLetters    == {0, 15, 60, 100}
ErrorCounts ==
    {e \in (0..MaxErrors) \X (0..MaxErrors) \X ScoreLetters : e[2] <= e[1] /\ e[1] <= e[3]}

ScoreArguments ==
    {[lps |-> lps, accuracy |-> accuracy, gameMode |-> gameMode,
      totalErrors |-> e[1], correctedErrors |-> e[2], totalLetters |-> e[3],
      finalScore |-> Rat(0, 1), returned |-> FALSE] :
        lps \in ScoreLps, accuracy \in ScoreAccuracies, gameMode \in {15, 30}, e \in ErrorCounts}

\* the call of calculateScore runs and returns
ScoreCall ==
    /\ scoreCall.gameMode # NoMode
    /\ ~scoreCall.returned
    /\ scoreCall' =
         [scoreCall EXCEPT
            !.finalScore = calculateScore(scoreCall.lps, scoreCall.accuracy, scoreCall.gameMode,
                                          scoreCall.totalErrors, scoreCall.correctedErrors,
                                          scoreCall.totalLetters),
            !.returned = TRUE]
    /\ UNCHANGED rankCalls
    /\ UNCHANGED submitVars
    /\ UNCHANGED runVars
    /\ UNCHANGED queryVars
    /\ UNCHANGED clientVars

\* the arguments calculateRank is called with: scores in halves around the
\* score floors, accuracies around the accuracy floors; rank is NULL until
\* the call returns
RankScores     == {Rat(k, 2) : k \in {0, 1, 2, 7, 8, 13, 14, 21, 22, 27, 28, 40}}
RankAccuracies == {0, 79, 80, 84, 85, 89, 90, 94, 95, 97, 98, 100}
RankArguments  ==
    {[score |-> score, accuracy |-> accuracy, rank |-> NULL] :
        score \in RankScores, accuracy \in RankAccuracies}

\* the earliest call of calculateRank that has not returned runs and returns
RankCall ==
    /\ \E i \in 1..Len(rankCalls) :
         /\ rankCalls[i].rank = NULL
         /\ \A j \in 1..(i - 1) : rankCalls[j].rank # NULL
         /\ rankCalls' = [rankCalls EXCEPT
                            ![i].rank = calculateRank(rankCalls[i].score, rankCalls[i].accuracy)]
    /\ UNCHANGED scoreCall
    /\ UNCHANGED submitVars
    /\ UNCHANGED runVars
    /\ UNCHANGED queryVars
    /\ UNCHANGED clientVars

----------------------------------------------------------------------------
(* POST /api/game-results: validation gates (route.ts 18-109) *)

\* ValidationError without the score-consistency window of lines 88-98
ValidationError_NoScoreWindow(b) ==
    IF b.player_name = Empty \/ b.game_mode = NoMode THEN "Missing required fields"
    ELSE IF b.rank \notin ALLOWED_RANKS THEN "Invalid rank"
    ELSE IF ~nameRegex(b.player_name) THEN "Invalid player name format"
    ELSE IF b.game_mode \notin {15, 30} THEN "Invalid game mode"
    ELSE IF b.score < 0 \/ b.score > 10000 THEN "Score out of valid range"
    ELSE IF b.lps < 0 \/ b.lps > 100 THEN "LPS out of valid range"
    ELSE IF b.accuracy < 0 \/ b.accuracy > 100 THEN "Accuracy out of valid range"
    ELSE IF b.ms_per_letter < 0 \/ b.ms_per_letter > 1000000 THEN "ms_per_letter out of valid range"
    ELSE IF \/ b.lps = 0
            \/ b.ms_per_letter * b.lps - 1000 > 10 * b.lps
            \/ 1000 - b.ms_per_letter * b.lps > 10 * b.lps
         THEN "ms_per_letter calculation mismatch"
    ELSE NULL

\* ValidationError without the accuracy range gate of lines 66-71
ValidationError_NoAccuracyRange(b) ==
    IF b.player_name = Empty \/ b.game_mode = NoMode THEN "Missing required fields"
    ELSE IF b.rank \notin ALLOWED_RANKS THEN "Invalid rank"
    ELSE IF ~nameRegex(b.player_name) THEN "Invalid player name format"
    ELSE IF b.game_mode \notin {15, 30} THEN "Invalid game mode"
    ELSE IF b.score < 0 \/ b.score > 10000 THEN "Score out of valid range"
    ELSE IF b.lps < 0 \/ b.lps > 100 THEN "LPS out of valid range"
    ELSE IF b.ms_per_letter < 0 \/ b.ms_per_letter > 1000000 THEN "ms_per_letter out of valid range"
    ELSE IF \/ b.score * 10000 * 10 > b.lps * b.accuracy * b.accuracy * 15
            \/ b.score * 10000 * 10 < b.lps * b.accuracy * b.accuracy * 9
         THEN "Score calculation mismatch"
    ELSE IF \/ b.lps = 0
            \/ b.ms_per_letter * b.lps - 1000 > 10 * b.lps
            \/ 1000 - b.ms_per_letter * b.lps > 10 * b.lps
         THEN "ms_per_letter calculation mismatch"
    ELSE NULL

\* ValidationError with the ms_per_letter tolerance of line 104 doubled
ValidationError_MsTolerance20(b) ==
    IF b.player_name = Empty \/ b.game_mode = NoMode THEN "Missing required fields"
    ELSE IF b.rank \notin ALLOWED_RANKS THEN "Invalid rank"
    ELSE IF ~nameRegex(b.player_name) THEN "Invalid player name format"
    ELSE IF b.game_mode \notin {15, 30} THEN "Invalid game mode"
    ELSE IF b.score < 0 \/ b.score > 10000 THEN "Score out of valid range"
    ELSE IF b.lps < 0 \/ b.lps > 100 THEN "LPS out of valid range"
    ELSE IF b.accuracy < 0 \/ b.accuracy > 100 THEN "Accuracy out of valid range"
    ELSE IF b.ms_per_letter < 0 \/ b.ms_per_letter > 1000000 THEN "ms_per_letter out of valid range"
    ELSE IF \/ b.score * 10000 * 10 > b.lps * b.accuracy * b.accuracy * 15
            \/ b.score * 10000 * 10 < b.lps * b.accuracy * b.accuracy * 9
         THEN "Score calculation mismatch"
    ELSE IF \/ b.lps = 0
            \/ b.ms_per_letter * b.lps - 1000 > 20 * b.lps
            \/ 1000 - b.ms_per_letter * b.lps > 20 * b.lps
         THEN "ms_per_letter calculation mismatch"
    ELSE NULL

\* The error string of the first failing gate, or NULL when every gate passes.
ValidationError(b) ==
    IF b.player_name = Empty \/ b.game_mode = NoMode THEN "Missing required fields"
    ELSE IF b.rank \notin ALLOWED_RANKS THEN "Invalid rank"
    ELSE IF ~nameRegex(b.player_name) THEN "Invalid player name format"
    ELSE IF b.game_mode \notin {15, 30} THEN "Invalid game mode"
    ELSE IF b.score < 0 \/ b.score > 10000 THEN "Score out of valid range"
    ELSE IF b.lps < 0 \/ b.lps > 100 THEN "LPS out of valid range"
    ELSE IF b.accuracy < 0 \/ b.accuracy > 100 THEN "Accuracy out of valid range"
    ELSE IF b.ms_per_letter < 0 \/ b.ms_per_letter > 1000000 THEN "ms_per_letter out of valid range"
    \* baseScore = lps * (accuracy/100)^2 ; max = base * 1.5 ; min = base * 0.9
    ELSE IF \/ b.score * 10000 * 10 > b.lps * b.accuracy * b.accuracy * 15
            \/ b.score * 10000 * 10 < b.lps * b.accuracy * b.accuracy * 9
         THEN "Score calculation mismatch"
    \* |ms_per_letter - 1000/lps| > 10 ; 1000/0 is Infinity
    ELSE IF \/ b.lps = 0
            \/ b.ms_per_letter * b.lps - 1000 > 10 * b.lps
            \/ 1000 - b.ms_per_letter * b.lps > 10 * b.lps
         THEN "ms_per_letter calculation mismatch"
    ELSE NULL

----------------------------------------------------------------------------
(* POST /api/game-results: the handler (route.ts 14-209)                  *)

NoBody ==
    [player_name |-> Empty, game_mode |-> 0, score |-> 0, lps |-> 0, accuracy |-> 0,
     rank |-> NULL, time |-> 0, ms_per_letter |-> 0, isTwitterUser |-> FALSE,
     total_letters |-> 0, uncorrected_errors |-> 0, corrected_errors |-> 0]
NoRecord == [id |-> NoId, score |-> 0]
NoResponse == [success |-> FALSE, status |-> 0, error |-> NULL, isNewBest |-> FALSE, id |-> NoId]

Ok(isNewBest, id) ==
    [success |-> TRUE, status |-> 200, error |-> NULL, isNewBest |-> isNewBest, id |-> id]
Fail(status, error) ==
    [success |-> FALSE, status |-> status, error |-> error, isNewBest |-> FALSE, id |-> NoId]

\* .eq("player_name", ..).eq("game_mode", ..)
Matching(b) ==
    {row \in game_results : row.player_name = b.player_name /\ row.game_mode = b.game_mode}

\* .order("score", {ascending: false}).limit(1), projected on "id, score"
TopRecords(b) ==
    {[id |-> row.id, score |-> row.score] :
        row \in {m \in Matching(b) : \A o \in Matching(b) : o.score <= m.score}}

\* the object passed to .update(...)
UpdatedRow(row, b) ==
    [row EXCEPT !.score = b.score, !.lps = b.lps, !.accuracy = b.accuracy,
                !.rank = b.rank, !.time = b.time,
                !.ms_per_letter = b.ms_per_letter, !.isTwitterUser = b.isTwitterUser]

\* an insert that forgets the time column
InsertedRow_NoTime(id, b) ==
    [id |-> id, player_name |-> b.player_name, score |-> b.score, lps |-> b.lps,
     accuracy |-> b.accuracy, rank |-> b.rank, time |-> 0,
     ms_per_letter |-> b.ms_per_letter, game_mode |-> b.game_mode,
     isTwitterUser |-> b.isTwitterUser]

\* the object passed to .insert([...]); the id is assigned by the store
InsertedRow(id, b) ==
    [id |-> id, player_name |-> b.player_name, score |-> b.score, lps |-> b.lps,
     accuracy |-> b.accuracy, rank |-> b.rank, time |-> b.time,
     ms_per_letter |-> b.ms_per_letter, game_mode |-> b.game_mode,
     isTwitterUser |-> b.isTwitterUser]

NextRowId == Cardinality(game_results) + 1

\* Lines 16-109: parse the body and run the gates; nothing here touches the store.
SubmitBegin(r, bodies) ==
    /\ pc[r] = "idle"
    /\ IF r = 1 THEN TRUE ELSE pc[r - 1] # "idle"      \* requests are numbered by arrival
    /\ \E b \in bodies :
         LET err == ValidationError(b) IN
         IF err # NULL
         THEN /\ pc' = [pc EXCEPT ![r] = "done"]
              /\ response' = [response EXCEPT ![r] = Fail(400, err)]
              /\ body' = body
         ELSE /\ pc' = [pc EXCEPT ![r] = "select"]
              /\ body' = [body EXCEPT ![r] = b]
              /\ response' = response
    /\ UNCHANGED <<game_results, existingRecord>>
    /\ UNCHANGED runVars
    /\ UNCHANGED queryVars
    /\ UNCHANGED scoringVars
    /\ UNCHANGED clientVars

\* Lines 113-130 and 159-165: the SELECT completes and the branch is chosen.
\* A query error is logged and the handler continues with no record.
SubmitSelect(r) ==
    /\ pc[r] = "select"
    /\ \E queryError \in BOOLEAN :
       \E rec \in (IF queryError \/ TopRecords(body[r]) = {} THEN {NoRecord} ELSE TopRecords(body[r])) :
         /\ existingRecord' = [existingRecord EXCEPT ![r] =
                                   IF rec # NoRecord /\ body[r].score > rec.score
                                   THEN rec ELSE NoRecord]
         /\ IF rec # NoRecord /\ body[r].score > rec.score
            THEN /\ pc' = [pc EXCEPT ![r] = "update"]
                 /\ UNCHANGED <<response, body>>
            ELSE IF rec # NoRecord /\ body[r].score <= rec.score
            THEN /\ pc' = [pc EXCEPT ![r] = "done"]
                 /\ response' = [response EXCEPT ![r] = Ok(FALSE, rec.id)]
                 /\ body' = [body EXCEPT ![r] = NoBody]
            ELSE /\ pc' = [pc EXCEPT ![r] = "insert"]
                 /\ UNCHANGED <<response, body>>
    /\ game_results' = game_results
    /\ UNCHANGED runVars
    /\ UNCHANGED queryVars
    /\ UNCHANGED scoringVars
    /\ UNCHANGED clientVars

\* Lines 131-158: UPDATE ... WHERE id = existingRecord.id completes.
SubmitUpdate(r) ==
    /\ pc[r] = "update"
    /\ \E error \in BOOLEAN :
         IF error
         THEN /\ game_results' = game_results
              /\ response' = [response EXCEPT ![r] = Fail(500, "store error")]
         ELSE /\ game_results' =
                    {IF row.id = existingRecord[r].id THEN UpdatedRow(row, body[r]) ELSE row :
                        row \in game_results}
              /\ response' = [response EXCEPT ![r] = Ok(TRUE, existingRecord[r].id)]
    /\ pc' = [pc EXCEPT ![r] = "done"]
    /\ body' = [body EXCEPT ![r] = NoBody]                 \* the request's locals
    /\ existingRecord' = [existingRecord EXCEPT ![r] = NoRecord]   \* go out of scope
    /\ UNCHANGED runVars
    /\ UNCHANGED queryVars
    /\ UNCHANGED scoringVars
    /\ UNCHANGED clientVars

\* Lines 166-198: INSERT completes.  The table has no uniqueness constraint
\* on (player_name, game_mode); the store assigns the next serial id.
SubmitInsert(r) ==
    /\ pc[r] = "insert"
    /\ \E error \in BOOLEAN :
         IF error
         THEN /\ game_results' = game_results
              /\ response' = [response EXCEPT ![r] = Fail(500, "store error")]
         ELSE /\ game_results' = game_results \cup {InsertedRow(NextRowId, body[r])}
              /\ response' = [response EXCEPT ![r] = Ok(TRUE, NextRowId)]
    /\ pc' = [pc EXCEPT ![r] = "done"]
    /\ body' = [body EXCEPT ![r] = NoBody]                 \* the request's locals
    /\ existingRecord' = [existingRecord EXCEPT ![r] = NoRecord]   \* go out of scope
    /\ UNCHANGED runVars
    /\ UNCHANGED queryVars
    /\ UNCHANGED scoringVars
    /\ UNCHANGED clientVars

----------------------------------------------------------------------------
(* POST start-run (route.ts 217-298): Issue                                *)

Tokens == {"t1", "t2"}          \* crypto.randomBytes(32).toString("base64url")

\* crypto.createHash("sha256").update(token).digest("hex")
\* a hash that returns its argument
Hash_Identity(token) == token

Hash(token) == "sha256:" \o token

FixedWindow == 30               \* seconds: issuedAt.getTime() + 30 * 1000
MinimumPlayDuration == 2        \* seconds (spec 4.1)

NoStartRequest == [player_name |-> Empty, game_mode |-> NoMode]

NoStart == [success |-> FALSE, status |-> 0, error |-> NULL,
            run_id |-> NoId, token |-> NULL, expires_at |-> NullTime]

\* StartRunError without the game_mode membership test of lines 236-241
StartRunError_AnyMode(b) ==
    IF b.player_name = Empty \/ b.game_mode = NoMode THEN "Missing required fields"
    ELSE IF ~nameRegex(b.player_name) THEN "Invalid player name format"
    ELSE NULL

StartRunError(b) ==
    IF b.player_name = Empty \/ b.game_mode = NoMode THEN "Missing required fields"
    ELSE IF ~nameRegex(b.player_name) THEN "Invalid player name format"
    ELSE IF b.game_mode \notin {15, 30} THEN "Invalid game mode"
    ELSE NULL

NextRunId == Cardinality(game_runs) + 1

StartRun(names, modes) ==
    /\ now <= MaxIssueAt
    /\ Cardinality(game_runs) < MaxRuns
    /\ \E name \in names, mode \in modes, token \in Tokens, error \in BOOLEAN :
         LET b   == [player_name |-> name, game_mode |-> mode]
             err == StartRunError(b)
             issuedAt  == now
             expiresAt == issuedAt + FixedWindow
         IN
         /\ startRequest' = b
         /\ IF err # NULL
            THEN /\ startResponse' = [NoStart EXCEPT !.status = 400, !.error = err]
                 /\ game_runs' = game_runs
            ELSE IF error
            THEN /\ startResponse' = [NoStart EXCEPT !.status = 500, !.error = "store error"]
                 /\ game_runs' = game_runs
            ELSE /\ game_runs' = game_runs \cup
                       {[id |-> NextRunId, token_hash |-> Hash(token),
                         issued_at |-> issuedAt, expires_at |-> expiresAt,
                         ip |-> "unknown", user_agent |-> "unknown",
                         game_mode |-> mode, player_name |-> name,
                         used_at |-> NullTime]}
                 /\ startResponse' = [success |-> TRUE, status |-> 200, error |-> NULL,
                                      run_id |-> NextRunId, token |-> token,
                                      expires_at |-> expiresAt]
    /\ UNCHANGED <<now, rpc, rreq, rresult>>
    /\ UNCHANGED submitVars
    /\ UNCHANGED queryVars
    /\ UNCHANGED scoringVars
    /\ UNCHANGED clientVars

\* Time passes.  Between QuietFrom and QuietTo no session crosses a deadline
\* (every session is issued by MaxIssueAt, is too fast until issued_at + 2 and
\* expires from FixedWindow on), so the clock crosses that interval in one step.
QuietFrom == MaxIssueAt + MinimumPlayDuration + 1
QuietTo   == FixedWindow - 1

Tick ==
    /\ now < MaxTime
    /\ now' = IF now = QuietFrom THEN QuietTo ELSE now + 1
    /\ UNCHANGED <<game_runs, startRequest, startResponse, rpc, rreq, rresult>>
    /\ UNCHANGED submitVars
    /\ UNCHANGED queryVars
    /\ UNCHANGED scoringVars
    /\ UNCHANGED clientVars

----------------------------------------------------------------------------
(* Redeem(run_id, secret) -- spec section 4.1 and 5.  The redeeming code   *)
(* is not part of src/; it is modelled from the specification: a lookup    *)
(* with the checks, then one atomic conditional update of used_at.         *)

NoRedeem == [run_id |-> NoId, token |-> NULL]

Session(run_id) == {s \in game_runs : s.id = run_id}

\* Lookup that does not compare the hash of the presented secret
Lookup_AnySecret(run_id, token) == Session(run_id)

\* the row a lookup by run_id with this secret returns (empty when none)
Lookup(run_id, token) == {s \in Session(run_id) : s.token_hash = Hash(token)}

\* RedeemError looking at the state of the session before the secret
RedeemError_StateFirst(run_id, token, t) ==
    IF Session(run_id) = {} THEN "InvalidSession"
    ELSE LET s == CHOOSE x \in Session(run_id) : TRUE IN
         IF s.used_at # NullTime THEN "SessionAlreadyUsed"
         ELSE IF t >= s.expires_at THEN "SessionExpired"
         ELSE IF s.token_hash # Hash(token) THEN "InvalidSession"
         ELSE IF t - s.issued_at < MinimumPlayDuration THEN "TooFast"
         ELSE NULL

\* RedeemError testing expiry before used_at
RedeemError_ExpiryFirst(run_id, token, t) ==
    IF Lookup(run_id, token) = {} THEN "InvalidSession"
    ELSE LET s == CHOOSE x \in Lookup(run_id, token) : TRUE IN
         IF t >= s.expires_at THEN "SessionExpired"
         ELSE IF s.used_at # NullTime THEN "SessionAlreadyUsed"
         ELSE IF t - s.issued_at < MinimumPlayDuration THEN "TooFast"
         ELSE NULL

\* RedeemError accepting a redemption at exactly expires_at
RedeemError_LateExpiry(run_id, token, t) ==
    IF Lookup(run_id, token) = {} THEN "InvalidSession"
    ELSE LET s == CHOOSE x \in Lookup(run_id, token) : TRUE IN
         IF s.used_at # NullTime THEN "SessionAlreadyUsed"
         ELSE IF t > s.expires_at THEN "SessionExpired"
         ELSE IF t - s.issued_at < MinimumPlayDuration THEN "TooFast"
         ELSE NULL

\* RedeemError rejecting a redemption at exactly the minimum play duration
RedeemError_StrictMinimum(run_id, token, t) ==
    IF Lookup(run_id, token) = {} THEN "InvalidSession"
    ELSE LET s == CHOOSE x \in Lookup(run_id, token) : TRUE IN
         IF s.used_at # NullTime THEN "SessionAlreadyUsed"
         ELSE IF t >= s.expires_at THEN "SessionExpired"
         ELSE IF t - s.issued_at <= MinimumPlayDuration THEN "TooFast"
         ELSE NULL

\* outcome of the checks made on the looked-up row at time t; NULL = pass
RedeemError(run_id, token, t) ==
    IF Lookup(run_id, token) = {} THEN "InvalidSession"
    ELSE LET s == CHOOSE x \in Lookup(run_id, token) : TRUE IN
         IF s.used_at # NullTime THEN "SessionAlreadyUsed"
         ELSE IF t >= s.expires_at THEN "SessionExpired"
         ELSE IF t - s.issued_at < MinimumPlayDuration THEN "TooFast"
         ELSE NULL

\* a lookup that spends the session although it refuses the attempt
RedeemLookup_SpendsOnRefusal(q) ==
    /\ rpc[q] = "idle"
    /\ IF q = 1 THEN TRUE ELSE rpc[q - 1] # "idle"
    /\ \E run_id \in 1..(MaxRuns + 1), token \in Tokens :
         LET err == RedeemError(run_id, token, now) IN
         /\ rreq' = [rreq EXCEPT ![q] = [run_id |-> run_id, token |-> token]]
         /\ IF err # NULL
            THEN /\ rpc' = [rpc EXCEPT ![q] = "done"]
                 /\ rresult' = [rresult EXCEPT ![q] = err]
                 /\ game_runs' = IF err = "TooFast"
                                 THEN {IF x.id = run_id THEN [x EXCEPT !.used_at = now] ELSE x :
                                          x \in game_runs}
                                 ELSE game_runs
            ELSE /\ rpc' = [rpc EXCEPT ![q] = "update"]
                 /\ rresult' = rresult
                 /\ game_runs' = game_runs
    /\ UNCHANGED <<startRequest, startResponse, now>>
    /\ UNCHANGED submitVars
    /\ UNCHANGED queryVars
    /\ UNCHANGED scoringVars
    /\ UNCHANGED clientVars

RedeemLookup(q) ==
    /\ rpc[q] = "idle"
    /\ IF q = 1 THEN TRUE ELSE rpc[q - 1] # "idle"     \* requests are numbered by arrival
    /\ \E run_id \in 1..(MaxRuns + 1), token \in Tokens :
         LET err == RedeemError(run_id, token, now) IN
         /\ rreq' = [rreq EXCEPT ![q] = [run_id |-> run_id, token |-> token]]
         /\ IF err # NULL
            THEN /\ rpc' = [rpc EXCEPT ![q] = "done"]
                 /\ rresult' = [rresult EXCEPT ![q] = err]
            ELSE /\ rpc' = [rpc EXCEPT ![q] = "update"]
                 /\ rresult' = rresult
    /\ UNCHANGED <<game_runs, startRequest, startResponse, now>>
    /\ UNCHANGED submitVars
    /\ UNCHANGED queryVars
    /\ UNCHANGED scoringVars
    /\ UNCHANGED clientVars

\* a redemption that also restarts the validity window
ConditionalUpdate_Renewing(run_id, t) ==
    {IF s.id = run_id /\ s.used_at = NullTime
     THEN [s EXCEPT !.used_at = t, !.expires_at = t + FixedWindow] ELSE s :
        s \in game_runs}

\* UPDATE game_runs SET used_at = now() WHERE id = run_id
ConditionalUpdate_Unconditional(run_id, t) ==
    {IF s.id = run_id THEN [s EXCEPT !.used_at = t] ELSE s : s \in game_runs}

\* UPDATE game_runs SET used_at = now() WHERE id = run_id AND used_at IS NULL
ConditionalUpdate(run_id, t) ==
    {IF s.id = run_id /\ s.used_at = NullTime THEN [s EXCEPT !.used_at = t] ELSE s :
        s \in game_runs}

RedeemUpdate(q) ==
    /\ rpc[q] = "update"
    /\ game_runs' = ConditionalUpdate(rreq[q].run_id, now)
    /\ rresult' = [rresult EXCEPT ![q] =
                      IF game_runs' # game_runs THEN "ok" ELSE "SessionAlreadyUsed"]
    /\ rpc' = [rpc EXCEPT ![q] = "done"]
    /\ UNCHANGED <<startRequest, startResponse, now, rreq>>
    /\ UNCHANGED submitVars
    /\ UNCHANGED queryVars
    /\ UNCHANGED scoringVars
    /\ UNCHANGED clientVars

----------------------------------------------------------------------------
(* getLeaderboard(gameMode, limit) -- scores.ts 135-241                   *)

NoLeaderboard == [game_mode |-> NoMode, limit |-> 0, data |-> <<>>, error |-> NULL]

\* lps * (accuracy/100)^2, counted in ten-thousandths
calculateAccuracyWeightedScore(lps, accuracy) == lps * accuracy * accuracy

Abs(n) == IF n < 0 THEN 0 - n ELSE n

\* the comparator handed to Array.prototype.sort (scores.ts 211-222); only
\* the sign of the result is used.  0.0001 is one ten-thousandth, and whole
\* accuracies differ by more than 0.01 exactly when they differ.
compare(a, b) ==
    LET weightedScoreA == calculateAccuracyWeightedScore(a.lps, a.accuracy)
        weightedScoreB == calculateAccuracyWeightedScore(b.lps, b.accuracy)
    IN  IF Abs(weightedScoreB - weightedScoreA) > 1
        THEN weightedScoreB - weightedScoreA
        ELSE IF Abs(b.accuracy - a.accuracy) * 100 > 1
        THEN b.accuracy - a.accuracy
        ELSE b.lps - a.lps

\* Array.prototype.sort as a stable insertion sort: an element moves left
\* past every element the comparator places after it
RECURSIVE InsertSorted(_, _)
InsertSorted(sorted, x) ==
    IF sorted = <<>> THEN <<x>>
    ELSE LET last == sorted[Len(sorted)]
         IN  IF compare(last, x) > 0
             THEN Append(InsertSorted(SubSeq(sorted, 1, Len(sorted) - 1), x), last)
             ELSE Append(sorted, x)

RECURSIVE Sort(_)
Sort(entries) ==
    IF entries = <<>> THEN <<>>
    ELSE InsertSorted(Sort(SubSeq(entries, 1, Len(entries) - 1)), entries[Len(entries)])

\* a slice that ignores the limit
Slice_All(entries, limit) == entries

\* entries.slice(0, limit), limit >= 0
Slice(entries, limit) ==
    SubSeq(entries, 1, IF limit < Len(entries) THEN limit ELSE Len(entries))

\* .from("game_results").select("*").eq("game_mode", gameMode): the rows in
\* any order, the query names none
Selections(gameMode) ==
    LET rows == {row \in game_results : row.game_mode = gameMode}
    IN  {order \in [1..Cardinality(rows) -> rows] : {order[i] : i \in DOMAIN order} = rows}

getLeaderboard(gameModes, limits) ==
    /\ \E gameMode \in gameModes, limit \in limits, error \in BOOLEAN :
         IF error
         THEN leaderboard' = [game_mode |-> gameMode, limit |-> limit, data |-> <<>>,
                              error |-> "query error"]
         ELSE \E data \in Selections(gameMode) :
                leaderboard' = [game_mode |-> gameMode, limit |-> limit,
                                data |-> Slice(Sort(data), limit), error |-> NULL]
    /\ UNCHANGED submitVars
    /\ UNCHANGED runVars
    /\ UNCHANGED scoringVars
    /\ UNCHANGED clientVars

----------------------------------------------------------------------------
(* The typing game in the browser (page.tsx): stateRef, handleKeydown and  *)
(* endGame.  Positions are counted from 0 as in letterElements.            *)

RMax(a, b) == IF RLeq(a, b) THEN b ELSE a

\* parseFloat(x.toFixed(digits)) for x >= 0, scale = 10^digits: the nearest
\* multiple of 1/scale, a half going up.  The fractional part is rounded to
\* k/scale for the largest k whose lower half-way point (2k - 1)/(2 scale)
\* it reaches.
toFixed(x, scale) ==
    LET k == Cardinality({i \in 1..scale :
                            LeqParts(2 * i - 1, 2 * scale, x.num % x.den, x.den)})
    IN  Rat((x.num \div x.den) * scale + k, scale)

\* nothing was handed to saveGameResult
NoSaved ==
    [score |-> Rat(0, 1), lps |-> Rat(0, 1), accuracy |-> Rat(0, 1), rank |-> NULL,
     time |-> Rat(0, 1), ms_per_letter |-> Rat(0, 1), game_mode |-> NoMode]

\* stateRef and the results after initGame, for a sentence of totalLetters
NewGame(totalLetters, gameMode) ==
    [gameMode |-> gameMode, totalLetters |-> totalLetters, currentIndex |-> 0,
     testActive |-> FALSE, testFinished |-> FALSE,
     errorPositions |-> {}, correctedErrors |-> {},
     errorClass |-> {},              \* the letters shown with text-dark-error
     durationMs |-> 0,               \* endTime - startTime of the finished game
     lettersPerSecond |-> Rat(0, 1), accuracy |-> Rat(0, 1), finalScore |-> Rat(0, 1),
     rank |-> NULL,                  \* the values endGame computed
     saved |-> NoSaved]              \* the argument of saveGameResult

\* stateRef as constructed, before any sentence is laid out
InitialGame == NewGame(0, 15)

\* endGame without the multiplier of the 30-word mode
endGameScore_NoMultiplier(lettersPerSecond, accuracy, gameMode, totalErrors, correctedErrors, lettersCount) ==
    LET correctionRate  == IF totalErrors > 0 THEN Rat(correctedErrors, totalErrors) ELSE Rat(0, 1)
        errorRate       == IF lettersCount > 0 THEN Rat(totalErrors, lettersCount) ELSE Rat(0, 1)
        correctionBonus == RMul(RMul(correctionRate,
                                     RSub(Rat(1, 1), RMin(RMul(errorRate, Rat(10, 1)), Rat(1, 2)))),
                                Rat(15, 100))
        accuracyDecimal == RMul(accuracy, Rat(1, 100))
        baseScore       == RMul(lettersPerSecond, RMul(accuracyDecimal, accuracyDecimal))
    IN  RMul(baseScore, RAdd(Rat(1, 1), correctionBonus))

\* endGame, page.tsx 517-544: finalScore
endGameScore(lettersPerSecond, accuracy, gameMode, totalErrors, correctedErrors, lettersCount) ==
    LET correctionRate  == IF totalErrors > 0 THEN Rat(correctedErrors, totalErrors) ELSE Rat(0, 1)
        errorRate       == IF lettersCount > 0 THEN Rat(totalErrors, lettersCount) ELSE Rat(0, 1)
        correctionBonus == RMul(RMul(correctionRate,
                                     RSub(Rat(1, 1), RMin(RMul(errorRate, Rat(10, 1)), Rat(1, 2)))),
                                Rat(15, 100))
        accuracyDecimal == RMul(accuracy, Rat(1, 100))
        baseScore       == RMul(lettersPerSecond, RMul(accuracyDecimal, accuracyDecimal))
        scoreWithCorrection == RMul(baseScore, RAdd(Rat(1, 1), correctionBonus))
        gameModeMultiplier  == IF gameMode = 30 THEN Rat(122, 100) ELSE Rat(1, 1)
        normalizedScore     == RMul(scoreWithCorrection, gameModeMultiplier)
    IN  normalizedScore

\* endGame, page.tsx 564-588: rank
endGameRank(finalScore, accuracy) ==
    IF RLeq(Rat(14, 1), finalScore) /\ RLeq(Rat(98, 1), accuracy) THEN "Grandmaster of Speed"
    ELSE IF RLeq(Rat(11, 1), finalScore) /\ RLeq(Rat(95, 1), accuracy) THEN "Turbo Typelord"
    ELSE IF RLeq(Rat(7, 1), finalScore) /\ RLeq(Rat(90, 1), accuracy) THEN "Chain Slayer"
    ELSE IF RLeq(Rat(4, 1), finalScore) /\ RLeq(Rat(85, 1), accuracy) THEN "Speed Operator"
    ELSE IF RLeq(Rat(1, 1), finalScore) /\ RLeq(Rat(80, 1), accuracy) THEN "Latency Warrior"
    ELSE "Typing Rookie"

\* endGame of the active game g, durationMs after startTest
endGame(g, durationMs) ==
    LET lettersCount      == IF g.totalLetters = 0 THEN 1 ELSE g.totalLetters
        durationSec       == RMax(Rat(durationMs, 1000), Rat(1, 1000))
        lettersPerSecond  == Rat(lettersCount * durationSec.den, durationSec.num)
        totalErrors       == Cardinality(g.errorPositions)
        correctedErrors   == Cardinality(g.correctedErrors)
        uncorrectedErrors == totalErrors - correctedErrors
        accuracy          == Rat((lettersCount - uncorrectedErrors) * 100, lettersCount)
        finalScore        == endGameScore(lettersPerSecond, accuracy, g.gameMode, totalErrors,
                                          correctedErrors, lettersCount)
        rank              == endGameRank(finalScore, accuracy)
        msPerLetter       == Rat(durationMs, lettersCount)
    IN  [g EXCEPT !.testActive = FALSE, !.testFinished = TRUE, !.durationMs = durationMs,
                  !.lettersPerSecond = lettersPerSecond, !.accuracy = accuracy,
                  !.finalScore = finalScore, !.rank = rank,
                  !.saved = [score |-> toFixed(finalScore, 100),
                             lps |-> toFixed(lettersPerSecond, 100),
                             accuracy |-> toFixed(RMax(accuracy, Rat(0, 1)), 10),
                             rank |-> rank,
                             time |-> toFixed(durationSec, 100),
                             ms_per_letter |-> toFixed(msPerLetter, 1),
                             game_mode |-> g.gameMode]]

\* the keys: one that equals the letter under the cursor, one that does
\* not, Backspace and Escape
Keys == {"right", "wrong", "Backspace", "Escape"}

\* handleKeydown with the overlay closed.  Escape starts a new game over a
\* sentence of one of the given lengths; the last letter ends the game,
\* durationMs after the first key.
handleKeydown(keys, durations, letters) ==
    /\ \E key \in keys, durationMs \in durations, totalLetters \in letters :
         IF key = "Escape"
         THEN game' = NewGame(totalLetters, game.gameMode)
         ELSE /\ ~game.testFinished
              /\ LET started == IF ~game.testActive /\ key \in {"right", "wrong"}
                                THEN [game EXCEPT !.testActive = TRUE] ELSE game
                     index   == IF key = "Backspace" THEN started.currentIndex - 1
                                ELSE started.currentIndex
                     hadError == index \in started.errorPositions
                 IN  IF ~started.testActive THEN game' = started
                     ELSE IF key = "Backspace"
                     THEN IF started.currentIndex > 0
                          THEN game' = [started EXCEPT
                                          !.currentIndex = index,
                                          !.correctedErrors =
                                              IF hadError THEN @ \cup {index} ELSE @,
                                          !.errorClass = @ \ {index}]
                          ELSE game' = started
                     ELSE IF started.currentIndex < started.totalLetters
                     THEN LET typed ==
                                IF key = "right"
                                THEN [started EXCEPT
                                        !.errorClass = @ \ {index},
                                        !.correctedErrors =
                                            IF hadError THEN @ \cup {index} ELSE @,
                                        !.currentIndex = index + 1]
                                ELSE [started EXCEPT
                                        !.errorClass = @ \cup {index},
                                        !.errorPositions = @ \cup {index},
                                        !.currentIndex = index + 1]
                          IN  game' = IF typed.currentIndex = typed.totalLetters
                                      THEN endGame(typed, durationMs) ELSE typed
                     ELSE game' = started
    /\ UNCHANGED submitVars
    /\ UNCHANGED runVars
    /\ UNCHANGED queryVars
    /\ UNCHANGED scoringVars

----------------------------------------------------------------------------
(* Specifications *)

Init ==
    /\ game_results = {}
    /\ pc = [r \in Requests |-> "idle"]
    /\ body = [r \in Requests |-> NoBody]
    /\ existingRecord = [r \in Requests |-> NoRecord]
    /\ response = [r \in Requests |-> NoResponse]
    /\ game_runs = {}
    /\ startRequest = NoStartRequest
    /\ startResponse = NoStart
    /\ now = 0
    /\ rpc = [q \in Redeems |-> "idle"]
    /\ rreq = [q \in Redeems |-> NoRedeem]
    /\ rresult = [q \in Redeems |-> NULL]
    /\ leaderboard = NoLeaderboard
    /\ scoreCall = NoScoreCall
    /\ rankCalls = <<>>
    /\ game = InitialGame

\* the submit-result endpoint under concurrent requests
NextSubmit ==
    \E r \in Requests :
        \/ SubmitBegin(r, Bodies)
        \/ SubmitSelect(r)
        \/ SubmitUpdate(r)
        \/ SubmitInsert(r)

SpecSubmit == Init /\ [][NextSubmit]_vars

\* the run-token protocol: issue, redeem, time passing
NextRun ==
    \/ StartRun({Alice, Al}, {15, 45})
    \/ Tick
    \/ \E q \in Redeems : RedeemLookup(q) \/ RedeemUpdate(q)

SpecRun == Init /\ [][NextRun]_vars

\* the two endpoints side by side: two submit requests for one key, one
\* redeem request, sessions being issued and time passing
FlowBodies == {GoodBody(Alice, 15, 10), GoodBody(Alice, 15, 14), GoodBody(Alice, 30, 12),
               GoodBody(Bob, 15, 10), [BaseBody EXCEPT !.score = 16]}

NextFlow ==
    \/ StartRun({Alice, Al}, {15, 45})
    \/ Tick
    \/ RedeemLookup(1)
    \/ RedeemUpdate(1)
    \/ \E r \in {1, 2} :
        \/ SubmitBegin(r, FlowBodies)
        \/ SubmitSelect(r)
        \/ SubmitUpdate(r)
        \/ SubmitInsert(r)

SpecFlow == Init /\ [][NextFlow]_vars

\* the leaderboard read: tables of accepted submissions, read in any order
QueryBody(name, mode, lps, accuracy, score, ms) ==
    [GoodBody(name, mode, score) EXCEPT !.lps = lps, !.accuracy = accuracy, !.ms_per_letter = ms]

QueryBodies ==
    {QueryBody(Alice, 15, 12, 100, 11, 83),      \* weighted 12, score 11
     QueryBody(Bob,   15, 10, 100, 14, 100),     \* weighted 10, score 14
     QueryBody(Carol, 15, 16,  50,  4, 62),      \* weighted 4, accuracy 50
     QueryBody(Alice, 15,  4, 100,  4, 250),     \* weighted 4, accuracy 100
     QueryBody(Bob,   15,  5,   0,  0, 200),     \* weighted 0, lps 5
     QueryBody(Carol, 15, 10,   0,  0, 100),     \* weighted 0, lps 10
     QueryBody(Carol, 15, 12, 100, 11, 83),      \* level with the first body
     QueryBody(Bob,   30, 10, 100, 12, 100)}     \* the other mode

Limits == {0, 1, 2, 10}

\* the tables MaxRows accepted submissions for distinct keys leave behind
RECURSIVE TablesOf(_)
TablesOf(n) ==
    IF n = 0 THEN {{}}
    ELSE LET smaller == TablesOf(n - 1)
         IN  smaller \cup
             {t \cup {InsertedRow(Cardinality(t) + 1, b)} :
                 <<t, b>> \in {<<t, b>> \in smaller \X QueryBodies :
                                 /\ ValidationError(b) = NULL
                                 /\ \A row \in t : row.player_name # b.player_name
                                                   \/ row.game_mode # b.game_mode}}

InitQuery ==
    /\ game_results \in TablesOf(MaxRows)
    /\ pc = [r \in Requests |-> "idle"]
    /\ body = [r \in Requests |-> NoBody]
    /\ existingRecord = [r \in Requests |-> NoRecord]
    /\ response = [r \in Requests |-> NoResponse]
    /\ game_runs = {}
    /\ startRequest = NoStartRequest
    /\ startResponse = NoStart
    /\ now = 0
    /\ rpc = [q \in Redeems |-> "idle"]
    /\ rreq = [q \in Redeems |-> NoRedeem]
    /\ rresult = [q \in Redeems |-> NULL]
    /\ leaderboard = NoLeaderboard
    /\ scoreCall = NoScoreCall
    /\ rankCalls = <<>>
    /\ game = InitialGame

NextQuery == getLeaderboard({15, 30, 45}, Limits)

SpecQuery == InitQuery /\ [][NextQuery]_vars

\* the gates at their boundaries: two requests, bodies that vary one family
\* of fields at a time around a consistent submission
GateBody(mode, lps, accuracy, score, ms, time) ==
    [GoodBody(Alice, mode, score) EXCEPT !.lps = lps, !.accuracy = accuracy,
                                         !.ms_per_letter = ms, !.time = time]

GateBodies ==
    \* lps: -1, 0, 1, 60, 61, 100, 101
    {GateBody(15, lps, 100, lps, ms, 20) :
        <<lps, ms>> \in {<<-1, 100>>, <<0, 0>>, <<1, 1000>>, <<60, 17>>,
                         <<61, 16>>, <<100, 10>>, <<101, 10>>}}
    \cup
    \* accuracy: -1, 0, 50, 100, 101
    {GateBody(15, 10, accuracy, score, 100, 20) :
        <<accuracy, score>> \in {<<-1, 10>>, <<0, 0>>, <<50, 3>>, <<100, 10>>, <<101, 10>>}}
    \cup
    \* ms_per_letter around 1000/lps = 100 and at the ends of its range
    {GateBody(15, 10, 100, 10, ms, 20) :
        ms \in {-1, 89, 90, 94, 95, 100, 105, 106, 110, 111, 1000001}}
    \cup
    \* time around the windows of the two modes
    {GateBody(15, 10, 100, 10, 100, time) : time \in {1, 2, 120, 121}}
    \cup
    {GateBody(30, 10, 100, 12, 100, time) : time \in {2, 3, 300, 301}}
    \cup
    \* score around 20 and at the ends of its range and of its window
    {GateBody(15, lps, 100, score, ms, 20) :
        <<lps, score, ms>> \in {<<10, -1, 100>>, <<10, 8, 100>>, <<10, 9, 100>>,
                                <<10, 15, 100>>, <<10, 16, 100>>, <<20, 20, 50>>,
                                <<20, 21, 50>>, <<100, 150, 10>>, <<100, 151, 10>>,
                                <<10, 10001, 100>>}}

NextGate ==
    \E r \in {1, 2} :
        \/ SubmitBegin(r, GateBodies)
        \/ SubmitSelect(r)
        \/ SubmitUpdate(r)
        \/ SubmitInsert(r)

SpecGate == Init /\ [][NextGate]_vars

\* each scoring function on its own, called with arguments from bounded sets
InitScore ==
    /\ game_results = {}
    /\ pc = [r \in Requests |-> "idle"]
    /\ body = [r \in Requests |-> NoBody]
    /\ existingRecord = [r \in Requests |-> NoRecord]
    /\ response = [r \in Requests |-> NoResponse]
    /\ game_runs = {}
    /\ startRequest = NoStartRequest
    /\ startResponse = NoStart
    /\ now = 0
    /\ rpc = [q \in Redeems |-> "idle"]
    /\ rreq = [q \in Redeems |-> NoRedeem]
    /\ rresult = [q \in Redeems |-> NULL]
    /\ leaderboard = NoLeaderboard
    /\ scoreCall \in ScoreArguments
    /\ rankCalls = <<>>
    /\ game = InitialGame

NextScore == ScoreCall

SpecScore == InitScore /\ [][NextScore]_vars

InitRank ==
    /\ game_results = {}
    /\ pc = [r \in Requests |-> "idle"]
    /\ body = [r \in Requests |-> NoBody]
    /\ existingRecord = [r \in Requests |-> NoRecord]
    /\ response = [r \in Requests |-> NoResponse]
    /\ game_runs = {}
    /\ startRequest = NoStartRequest
    /\ startResponse = NoStart
    /\ now = 0
    /\ rpc = [q \in Redeems |-> "idle"]
    /\ rreq = [q \in Redeems |-> NoRedeem]
    /\ rresult = [q \in Redeems |-> NULL]
    /\ leaderboard = NoLeaderboard
    /\ scoreCall = NoScoreCall
    /\ rankCalls \in {<<a, b>> : a \in RankArguments, b \in RankArguments}
    /\ game = InitialGame

NextRank == RankCall

SpecRank == InitRank /\ [][NextRank]_vars

\* the start-run endpoint on its own, with well-formed and malformed bodies
LongName == [i \in 1..51 |-> "a"]          \* one character too long
Spaced   == <<"a", " ", "b">>              \* a character outside the policy

IssueNames == {Alice, Bob, Al, Empty, LongName, Spaced}
IssueModes == {15, 30, 45, NoMode}

NextIssue ==
    \/ StartRun(IssueNames, IssueModes)
    \/ Tick

SpecIssue == Init /\ [][NextIssue]_vars

\* a game typed key by key: short sentences, every key, restarts
TypingLetters   == 1..MaxLetters
TypingDurations == {1500, 6000}

InitTyping ==
    /\ game \in {NewGame(totalLetters, gameMode) :
                    totalLetters \in TypingLetters, gameMode \in {15, 30}}
    /\ game_results = {}
    /\ pc = [r \in Requests |-> "idle"]
    /\ body = [r \in Requests |-> NoBody]
    /\ existingRecord = [r \in Requests |-> NoRecord]
    /\ response = [r \in Requests |-> NoResponse]
    /\ game_runs = {}
    /\ startRequest = NoStartRequest
    /\ startResponse = NoStart
    /\ now = 0
    /\ rpc = [q \in Redeems |-> "idle"]
    /\ rreq = [q \in Redeems |-> NoRedeem]
    /\ rresult = [q \in Redeems |-> NULL]
    /\ leaderboard = NoLeaderboard
    /\ scoreCall = NoScoreCall
    /\ rankCalls = <<>>

NextTyping == handleKeydown(Keys, TypingDurations, TypingLetters)

SpecTyping == InitTyping /\ [][NextTyping]_vars

\* the end of a game: sentences of 60 and 100 letters, one key from their
\* end, with up to MaxMistakes error positions of which some were erased
\* and retyped; the last key is right or wrong and the game took between
\* one second and five minutes
FinishLetters   == {60, 100}
FinishDurations == {1000, 6000, 20000, 45000, 108000, 300000}

GameBeforeLastKey(totalLetters, gameMode, totalErrors, correctedErrors) ==
    [NewGame(totalLetters, gameMode) EXCEPT
        !.testActive = TRUE,
        !.currentIndex = totalLetters - 1,
        !.errorPositions = 0..(totalErrors - 1),
        !.correctedErrors = 0..(correctedErrors - 1),
        !.errorClass = correctedErrors..(totalErrors - 1)]

InitFinish ==
    /\ game \in {GameBeforeLastKey(totalLetters, gameMode, totalErrors, correctedErrors) :
                    totalLetters \in FinishLetters, gameMode \in {15, 30},
                    totalErrors \in 0..MaxMistakes, correctedErrors \in 0..MaxMistakes}
    /\ Cardinality(game.correctedErrors) <= Cardinality(game.errorPositions)
    /\ game_results = {}
    /\ pc = [r \in Requests |-> "idle"]
    /\ body = [r \in Requests |-> NoBody]
    /\ existingRecord = [r \in Requests |-> NoRecord]
    /\ response = [r \in Requests |-> NoResponse]
    /\ game_runs = {}
    /\ startRequest = NoStartRequest
    /\ startResponse = NoStart
    /\ now = 0
    /\ rpc = [q \in Redeems |-> "idle"]
    /\ rreq = [q \in Redeems |-> NoRedeem]
    /\ rresult = [q \in Redeems |-> NULL]
    /\ leaderboard = NoLeaderboard
    /\ scoreCall = NoScoreCall
    /\ rankCalls = <<>>

NextFinish == handleKeydown({"right", "wrong"}, FinishDurations, FinishLetters)

SpecFinish == InitFinish /\ [][NextFinish]_vars

----------------------------------------------------------------------------
(* Steps of the handlers, as seen between two states *)

\* request r completes its store write in this step and the table changed
Wrote(r) == pc[r] \in {"update", "insert"} /\ pc'[r] = "done" /\ game_results' # game_results

\* request r is answered with a 400 in this step
Rejected(r) == pc[r] # "done" /\ pc'[r] = "done" /\ response'[r].status = 400

\* redeem request q runs its lookup and checks in this step
LookedUp(q) == rpc[q] = "idle" /\ rpc'[q] # "idle"

\* redeem request q runs its conditional update in this step
Updated(q) == rpc[q] = "update" /\ rpc'[q] = "done"

\* the session row the request presented, before the step
Target(q) == Session(rreq'[q].run_id)

SecretMatches(q) == \E s \in Target(q) : s.token_hash = Hash(rreq'[q].token)

----------------------------------------------------------------------------
(* C1 -- a row of game_results is written only by a request that redeemed *)
(* a run session: whenever the table holds a row, some run session has    *)
(* been spent (used_at set).                                              *)
C1_WriteRequiresRedeem ==
    \A row \in game_results : \E s \in game_runs : s.used_at # NullTime

----------------------------------------------------------------------------
(* C2 -- at most one Redeem of a run session succeeds: no two requests    *)
(* succeed for the same run_id, and a Redeem with the right secret of a   *)
(* session already spent ends in SessionAlreadyUsed, whatever the time.   *)
C2_SingleRedemption ==
    /\ [](\A q1, q2 \in Redeems :
            (rresult[q1] = "ok" /\ rresult[q2] = "ok" /\ rreq[q1].run_id = rreq[q2].run_id)
            => q1 = q2)
    /\ [][\A q \in Redeems :
            (rpc[q] # "done" /\ rpc'[q] = "done" /\ SecretMatches(q)
                /\ \E s \in Target(q) : s.used_at # NullTime)
            => rresult'[q] = "SessionAlreadyUsed"]_vars

\* a second redemption refused after the first succeeded, the window being over
C2_Witness ==
    \E q1, q2 \in Redeems :
        /\ rresult[q1] = "ok"
        /\ rresult[q2] = "SessionAlreadyUsed"
        /\ rreq[q1] = rreq[q2]
        /\ \E s \in Session(rreq[q1].run_id) : now >= s.expires_at

(* C3 -- of two Redeems of one run_id that both passed the checks before  *)
(* either wrote, the first conditional update succeeds and the other ends *)
(* in SessionAlreadyUsed.                                                 *)
C3_ConcurrentRedeem ==
    [][\A q \in Redeems :
         Updated(q) =>
            rresult'[q] =
                IF \E q2 \in Redeems \ {q} :
                        rresult[q2] = "ok" /\ rreq[q2].run_id = rreq[q].run_id
                THEN "SessionAlreadyUsed" ELSE "ok"]_vars

\* one request has redeemed while another, past its checks, has yet to write
C3_Witness ==
    \E q1, q2 \in Redeems :
        /\ q1 # q2
        /\ rresult[q1] = "ok"
        /\ rpc[q2] = "update"
        /\ rreq[q1].run_id = rreq[q2].run_id

(* C4 -- Redeem succeeds iff used_at is null, now() < expires_at and the  *)
(* hash of the secret equals token_hash (as claimed: nothing else).       *)
Redeemable(q) ==
    \E s \in Target(q) :
        /\ s.used_at = NullTime
        /\ now < s.expires_at
        /\ Hash(rreq'[q].token) = s.token_hash

C4_RedeemableIff ==
    [][\A q \in Redeems :
         /\ LookedUp(q) => (rpc'[q] = "update" <=> Redeemable(q))
         /\ Updated(q) => (rresult'[q] = "ok" <=>
                              \E s \in Session(rreq[q].run_id) : s.used_at = NullTime)]_vars

(* C4 amended -- Redeem succeeds iff used_at is null, the hash matches    *)
(* and issued_at + minimum play duration <= now() < expires_at.           *)
C4_RedeemableAfterMinimum ==
    [][\A q \in Redeems :
         /\ LookedUp(q) =>
                (rpc'[q] = "update" <=>
                    /\ Redeemable(q)
                    /\ \E s \in Target(q) : now - s.issued_at >= MinimumPlayDuration)
         /\ Updated(q) => (rresult'[q] = "ok" <=>
                              \E s \in Session(rreq[q].run_id) : s.used_at = NullTime)]_vars

\* a redemption refused as too fast and a later one accepted
C4_Witness ==
    \E q1, q2 \in Redeems :
        /\ rresult[q1] = "TooFast"
        /\ rresult[q2] = "ok"
        /\ rreq[q1] = rreq[q2]

(* C5 -- the failure of a Redeem: InvalidSession when no row has the      *)
(* run_id or the hash differs, SessionAlreadyUsed when the matched row is *)
(* spent, SessionExpired when it is unspent and now() >= expires_at.      *)
C5_RedeemFailures ==
    [][\A q \in Redeems :
         LookedUp(q) =>
            /\ ~SecretMatches(q) => rresult'[q] = "InvalidSession"
            /\ (SecretMatches(q) /\ \E s \in Target(q) : s.used_at # NullTime)
                  => rresult'[q] = "SessionAlreadyUsed"
            /\ (SecretMatches(q) /\ \E s \in Target(q) : s.used_at = NullTime /\ now >= s.expires_at)
                  => rresult'[q] = "SessionExpired"]_vars

\* an invalid attempt, then the right secret presented exactly at expires_at
C5_Witness ==
    \E q1, q2 \in Redeems :
        /\ rresult[q1] = "InvalidSession"
        /\ rresult[q2] = "SessionExpired"
        /\ \E s \in Session(rreq[q2].run_id) : now = s.expires_at /\ s.used_at = NullTime

(* C6 -- a Redeem of an unspent, unexpired session with the right secret  *)
(* is TooFast exactly when now() - issued_at < 2s; from issued_at + 2s on *)
(* it passes the checks.                                                  *)
C6_MinimumPlayDuration ==
    [][\A q \in Redeems :
         (LookedUp(q) /\ Redeemable(q)) =>
            \A s \in Target(q) :
                /\ now - s.issued_at < 2 => rresult'[q] = "TooFast"
                /\ now - s.issued_at >= 2 => (rpc'[q] = "update" /\ rresult'[q] = NULL)]_vars

\* refused one second after issue, redeemed exactly two seconds after issue
C6_Witness ==
    \E q1, q2 \in Redeems :
        /\ rresult[q1] = "TooFast"
        /\ rresult[q2] = "ok"
        /\ \E s \in Session(rreq[q2].run_id) : s.used_at = s.issued_at + 2

----------------------------------------------------------------------------
(* C7 -- the score a Submit writes is calculateScore of the submitted     *)
(* lps, accuracy, game_mode and error counts, not the client's score.     *)
C7_StoredScoreIsRecomputed ==
    [][\A r \in Requests :
         Wrote(r) =>
            \A row \in game_results' \ game_results :
                REqInt(calculateScore(body[r].lps, body[r].accuracy, body[r].game_mode,
                                      body[r].uncorrected_errors + body[r].corrected_errors,
                                      body[r].corrected_errors, body[r].total_letters),
                       row.score)]_vars

(* C8 -- a Submit answered with a validation failure leaves game_results  *)
(* as it was, and every row of the table passes every validation gate.    *)
PassedEveryGate(row) ==
    /\ row.player_name # Empty
    /\ row.rank \in ALLOWED_RANKS
    /\ nameRegex(row.player_name)
    /\ row.game_mode \in {15, 30}
    /\ 0 <= row.score /\ row.score <= 10000
    /\ 0 <= row.lps /\ row.lps <= 100
    /\ 0 <= row.accuracy /\ row.accuracy <= 100
    /\ 0 <= row.ms_per_letter /\ row.ms_per_letter <= 1000000
    \* 0.9 * base <= score <= 1.5 * base, base = lps * (accuracy/100)^2
    /\ 9 * row.lps * row.accuracy * row.accuracy <= 100000 * row.score
    /\ 100000 * row.score <= 15 * row.lps * row.accuracy * row.accuracy
    \* |ms_per_letter - 1000/lps| <= 10
    /\ row.lps # 0
    /\ row.ms_per_letter * row.lps - 1000 <= 10 * row.lps
    /\ 1000 - row.ms_per_letter * row.lps <= 10 * row.lps

C8_RejectedNotRecorded ==
    /\ [](\A row \in game_results : PassedEveryGate(row))
    /\ [][\A r \in Requests : Rejected(r) => game_results' = game_results]_vars

\* a submission was rejected while the table holds a row
C8_Witness ==
    /\ game_results # {}
    /\ \E r \in Requests : response[r].status = 400 /\ ~response[r].success

(* C9 -- game_results holds at most one row per (player_name, game_mode). *)
C9_OneRowPerKey ==
    \A r1, r2 \in game_results :
        (r1.player_name = r2.player_name /\ r1.game_mode = r2.game_mode) => r1 = r2

(* C10 -- compare and write are serialized per key: an UPDATE is applied  *)
(* only while its score still exceeds the score stored in that row.       *)
C10_WriteBeatsStored ==
    [][\A r \in Requests :
         (pc[r] = "update" /\ Wrote(r)) =>
            \A row \in game_results : row.id = existingRecord[r].id => body[r].score > row.score]_vars

----------------------------------------------------------------------------
(* The three branches of the handler after validation (route.ts 128-198) *)

\* the columns the handler writes from the request body on an insert
CarriesFields(row, b) ==
    /\ row.player_name = b.player_name /\ row.game_mode = b.game_mode
    /\ row.score = b.score /\ row.lps = b.lps /\ row.accuracy = b.accuracy
    /\ row.rank = b.rank /\ row.time = b.time
    /\ row.ms_per_letter = b.ms_per_letter /\ row.isTwitterUser = b.isTwitterUser

\* request r leaves the SELECT in this step
Selected(r) == pc[r] = "select" /\ pc'[r] # "select"

\* requests 1 and 2 are the only ones that have arrived
OnlyTwo == \A o \in Requests \ {1, 2} : pc[o] = "idle"

(* C11 -- when the table holds no row for the submitted (player_name,     *)
(* game_mode), a validated Submit goes on to the INSERT, and the INSERT,  *)
(* unless the store reports an error (answered 500, nothing written),     *)
(* adds exactly one row with a fresh id carrying the submitted fields and *)
(* answers isNewBest = true with that row's id.                           *)
C11_InsertWhenAbsent ==
    [][\A r \in Requests :
         /\ (Selected(r) /\ Matching(body[r]) = {}) =>
                (pc'[r] = "insert" /\ game_results' = game_results)
         /\ (pc[r] = "insert" /\ pc'[r] = "done") =>
                \/ response'[r].status = 500 /\ game_results' = game_results
                \/ \E row \in game_results' \ game_results :
                     /\ game_results' = game_results \cup {row}
                     /\ \A o \in game_results : o.id # row.id
                     /\ CarriesFields(row, body[r])
                     /\ response'[r] = Ok(TRUE, row.id)]_vars

\* a first submission was answered isNewBest with the id of the only row
C11_Witness ==
    /\ Cardinality(game_results) = 1
    /\ \E r \in Requests : \E row \in game_results :
         response[r] = Ok(TRUE, row.id)

(* C12 -- when rows exist for the key and the submitted score is strictly *)
(* greater than the stored one, a validated Submit goes on to the UPDATE  *)
(* of such a row, and the UPDATE overwrites that row's fields, keeps its  *)
(* id, player_name and game_mode, creates no row and answers isNewBest =  *)
(* true with the existing id.                                             *)
C12_UpdateWhenBetter ==
    [][\A r \in Requests :
         /\ (/\ Selected(r)
             /\ Matching(body[r]) # {}
             /\ \A row \in Matching(body[r]) : body[r].score > row.score) =>
                /\ pc'[r] = "update"
                /\ \E row \in Matching(body[r]) : existingRecord'[r].id = row.id
                /\ game_results' = game_results
         /\ (pc[r] = "update" /\ pc'[r] = "done") =>
                \/ response'[r].status = 500 /\ game_results' = game_results
                \/ /\ {row.id : row \in game_results'} = {row.id : row \in game_results}
                   /\ Cardinality(game_results') = Cardinality(game_results)
                   /\ \A row \in game_results' :
                        IF row.id = existingRecord[r].id
                        THEN /\ CarriesFields(row, body[r])
                             /\ \E old \in game_results :
                                  /\ old.id = row.id
                                  /\ old.player_name = row.player_name
                                  /\ old.game_mode = row.game_mode
                        ELSE row \in game_results
                   /\ response'[r] = Ok(TRUE, existingRecord[r].id)]_vars

(* C13 -- when a row exists for the key and the submitted score is not    *)
(* greater than the stored score, a validated Submit ends at the lookup:  *)
(* the table is unchanged and the answer is success with isNewBest =      *)
(* false and the id of the existing best row.                             *)
C13_NoWriteWhenNotBetter ==
    [][\A r \in Requests :
         (/\ Selected(r)
          /\ \E row \in Matching(body[r]) : body[r].score <= row.score) =>
            /\ game_results' = game_results
            /\ pc'[r] = "done"
            /\ \E rec \in TopRecords(body[r]) : response'[r] = Ok(FALSE, rec.id)]_vars

(* C14 -- submitting the same validated (player_name, game_mode, score)   *)
(* twice in sequence is idempotent: the second submission, made alone     *)
(* after the first one was recorded, leaves the table as the first left   *)
(* it, with exactly one row for the key, and answers isNewBest = false.   *)
(* Request 2 reads the table after request 1 has been answered, and no    *)
(* other request has arrived.                                             *)
C14_ResubmitIdempotent ==
    [][(/\ pc[1] = "done" /\ response[1].success /\ response[1].isNewBest
        /\ OnlyTwo /\ Selected(2)
        /\ \E row \in game_results :
             /\ row.id = response[1].id
             /\ CarriesFields(row, body[2])) =>
            /\ game_results' = game_results
            /\ Cardinality(Matching(body[2])) = 1
            /\ pc'[2] = "done"
            /\ response'[2] = Ok(FALSE, response[1].id)]_vars

----------------------------------------------------------------------------
(* The leaderboard read *)

\* the answer holds at most limit rows, all stored rows of the asked mode
WithinLimitAndMode ==
    /\ Len(leaderboard.data) <= leaderboard.limit
    /\ \A i \in 1..Len(leaderboard.data) :
         /\ leaderboard.data[i] \in game_results
         /\ leaderboard.data[i].game_mode = leaderboard.game_mode

\* a is not ranked below b: stored score, then accuracy, then lps
ByStoredScore(a, b) ==
    \/ a.score > b.score
    \/ /\ a.score = b.score
       /\ \/ a.accuracy > b.accuracy
          \/ a.accuracy = b.accuracy /\ a.lps >= b.lps

\* a is not ranked below b: lps * (accuracy/100)^2 apart by more than
\* 0.0001, else accuracy, else lps
ByWeightedScore(a, b) ==
    LET wa == a.lps * a.accuracy * a.accuracy
        wb == b.lps * b.accuracy * b.accuracy
    IN  \/ wa - wb > 1
        \/ /\ wa - wb <= 1 /\ wb - wa <= 1
           /\ \/ a.accuracy > b.accuracy
              \/ a.accuracy = b.accuracy /\ a.lps >= b.lps

(* C15 -- Query(game_mode, limit) returns at most limit records, all of   *)
(* the requested game_mode, each next to its successor in the order of    *)
(* the stored score descending, ties by accuracy descending, then lps     *)
(* descending.                                                            *)
C15_OrderedByStoredScore ==
    leaderboard.error = NULL =>
        /\ WithinLimitAndMode
        /\ \A i \in 1..(Len(leaderboard.data) - 1) :
             ByStoredScore(leaderboard.data[i], leaderboard.data[i + 1])

(* C15, amended -- Query(game_mode, limit) returns at most limit records, *)
(* all of the requested game_mode, each next to its successor in the      *)
(* order of the accuracy-weighted score lps * (accuracy/100)^2 computed   *)
(* from the stored lps and accuracy, descending; weighted scores within   *)
(* 0.0001 of each other are ties, broken by accuracy descending, then lps *)
(* descending.  The stored score field plays no part in the order.        *)
C15_OrderedByWeightedScore ==
    leaderboard.error = NULL =>
        /\ WithinLimitAndMode
        /\ \A i \in 1..(Len(leaderboard.data) - 1) :
             ByWeightedScore(leaderboard.data[i], leaderboard.data[i + 1])

\* a read cut to two of three rows puts a lower stored score first
C15_Witness ==
    /\ leaderboard.error = NULL
    /\ leaderboard.limit = 2
    /\ Len(leaderboard.data) = 2
    /\ Cardinality({row \in game_results : row.game_mode = leaderboard.game_mode}) = 3
    /\ leaderboard.data[1].score < leaderboard.data[2].score

----------------------------------------------------------------------------
(* The gates at their boundaries *)

\* request r passes every gate in this step; its body is body'[r]
Passed(r) == pc[r] = "idle" /\ pc'[r] = "select"

\* |ms_per_letter - 1000/lps| <= tolerance
MsConsistent(b, tolerance) ==
    /\ b.lps # 0
    /\ b.ms_per_letter * b.lps - 1000 <= tolerance * b.lps
    /\ 1000 - b.ms_per_letter * b.lps <= tolerance * b.lps

\* time, in seconds, within [1.5, 120] for 15 words and [3, 300] for 30
TimeWithinWindow(b) ==
    IF b.game_mode = 15 THEN 2 * b.time >= 3 /\ b.time <= 120
    ELSE 3 <= b.time /\ b.time <= 300

(* C16 -- the validator lets a submission through only when 0 < lps <= 60 *)
(* (60 passes; 0, negative values and values above 60 are rejected with   *)
(* nothing written), so every stored row has 0 < lps <= 60.               *)
C16_LpsWithinSixty ==
    /\ [](\A row \in game_results : 0 < row.lps /\ row.lps <= 60)
    /\ [][\A r \in Requests : Passed(r) => (0 < body'[r].lps /\ body'[r].lps <= 60)]_vars

(* C17 -- the validator lets a submission through only when its time lies *)
(* in the window of its mode ([1.5, 120] seconds for 15 words, [3, 300]   *)
(* for 30 words), so every stored row has its time in that window.        *)
C17_TimeWithinWindow ==
    /\ [](\A row \in game_results : TimeWithinWindow(row))
    /\ [][\A r \in Requests : Passed(r) => TimeWithinWindow(body'[r])]_vars

C20_ScoreWithinTwenty ==
    /\ [](\A row \in game_results : 0 <= row.score /\ row.score <= 20)
    /\ [][\A r \in Requests : Passed(r) => (0 <= body'[r].score /\ body'[r].score <= 20)]_vars

----------------------------------------------------------------------------
(* The session a submission is bound to *)

Spent == {s \in game_runs : s.used_at # NullTime}

(* C21 -- a score is recorded only under the game_mode of a redeemed run  *)
(* session: once a session has been redeemed, every row of game_results   *)
(* has the game_mode some redeemed session was issued for.                *)
C21_ModeOfRedeemedSession ==
    Spent # {} =>
        \A row \in game_results : \E s \in Spent : s.game_mode = row.game_mode

----------------------------------------------------------------------------
(* The scoring functions *)

\* the correction bonus as the score formula states it
StatedBonus(c) ==
    LET correctionRate == IF c.correctedErrors = 0 THEN Rat(0, 1)
                          ELSE Rat(c.correctedErrors, c.totalErrors)
        errorRate      == IF c.totalLetters = 0 THEN Rat(0, 1)
                          ELSE Rat(c.totalErrors, c.totalLetters)
        penalty        == RMin(RMul(errorRate, Rat(10, 1)), Rat(1, 2))
    IN  RMul(RMul(correctionRate, RSub(Rat(1, 1), penalty)), Rat(15, 100))

\* lps * (accuracy/100)^2 * (1 + correctionBonus) * modeMultiplier
StatedScore(c) ==
    LET base           == Rat(c.lps * c.accuracy * c.accuracy, 10000)
        modeMultiplier == IF c.gameMode = 30 THEN Rat(122, 100) ELSE Rat(1, 1)
    IN  RMul(RMul(base, RAdd(Rat(1, 1), StatedBonus(c))), modeMultiplier)

TierOf(rank) ==
    CASE rank = "Typing Rookie" -> 1
      [] rank = "Latency Warrior" -> 2
      [] rank = "Speed Operator" -> 3
      [] rank = "Chain Slayer" -> 4
      [] rank = "Turbo Typelord" -> 5
      [] rank = "Grandmaster of Speed" -> 6

\* the floors of tiers 2 to 6
ScoreFloor    == [k \in 2..6 |-> <<1, 4, 7, 11, 14>>[k - 1]]
AccuracyFloor == [k \in 2..6 |-> <<80, 85, 90, 95, 98>>[k - 1]]

\* the tiers whose two floors the call meets, with tier 1 which has none
TiersMet(call) ==
    {1} \cup {k \in 2..6 : RLeq(Rat(ScoreFloor[k], 1), call.score)
                           /\ call.accuracy >= AccuracyFloor[k]}

C24_RankMonotoneInScore ==
    \A i, j \in 1..Len(rankCalls) :
        (/\ rankCalls[i].rank # NULL /\ rankCalls[j].rank # NULL
         /\ rankCalls[i].accuracy = rankCalls[j].accuracy
         /\ RLeq(rankCalls[i].score, rankCalls[j].score)) =>
            TierOf(rankCalls[i].rank) <= TierOf(rankCalls[j].rank)

\* two calls with the same accuracy and different scores got different tiers
C24_Witness ==
    /\ Len(rankCalls) = 2
    /\ rankCalls[1].rank # NULL /\ rankCalls[2].rank # NULL
    /\ rankCalls[1].accuracy = rankCalls[2].accuracy
    /\ ~RLeq(rankCalls[2].score, rankCalls[1].score)
    /\ TierOf(rankCalls[1].rank) < TierOf(rankCalls[2].rank)

----------------------------------------------------------------------------
(* Issue of a run session *)

\* a start-run request is answered in this step
Started == <<startRequest, startResponse>>' # <<startRequest, startResponse>>

\* the body names no player, a name outside the policy, or a mode other
\* than 15 and 30
Malformed(b) ==
    \/ b.player_name = Empty
    \/ Len(b.player_name) < 3 \/ Len(b.player_name) > 50
    \/ \E i \in 1..Len(b.player_name) :
         b.player_name[i] \notin Lower \cup Upper \cup Digits \cup {".", "_", "-"}
    \/ b.game_mode \notin {15, 30}

(* C25 -- a successful Issue inserts exactly one run session: used_at     *)
(* null, the player_name and game_mode of the request, token_hash the     *)
(* hash of the secret returned (the secret itself in no stored field),    *)
(* expires_at = issued_at + 30 seconds with issued_at the time of the     *)
(* request; the response carries that row's id and its expires_at.        *)
C25_IssueInsertsOneSession ==
    [][(Started /\ startResponse'.success) =>
         \E s \in game_runs' \ game_runs :
            /\ game_runs' = game_runs \cup {s}
            /\ \A o \in game_runs : o.id # s.id
            /\ s.used_at = NullTime
            /\ s.player_name = startRequest'.player_name
            /\ s.game_mode = startRequest'.game_mode
            /\ s.token_hash = "sha256:" \o startResponse'.token
            /\ startResponse'.token \notin {s.token_hash, s.ip, s.user_agent}
            /\ s.issued_at = now
            /\ s.expires_at = s.issued_at + 30
            /\ startResponse'.run_id = s.id
            /\ startResponse'.expires_at = s.expires_at]_vars

\* a session for (bob, 30) was issued and its token returned
C25_Witness ==
    /\ startResponse.success
    /\ \E s \in game_runs :
         /\ s.id = startResponse.run_id
         /\ s.player_name = Bob /\ s.game_mode = 30
         /\ s.used_at = NullTime

(* C26 -- Issue answers a request whose player_name is missing or outside *)
(* the name policy, or whose game_mode is not 15 or 30, with a 400 and    *)
(* success false, returns no token and inserts no run session.            *)
C26_IssueRejectsMalformed ==
    /\ [](Malformed(startRequest) =>
            /\ ~startResponse.success
            /\ startResponse.token = NULL /\ startResponse.run_id = NoId
            /\ (startRequest # NoStartRequest => startResponse.status = 400))
    /\ [][(Started /\ Malformed(startRequest')) => game_runs' = game_runs]_vars

\* a request with a well-formed name and game_mode 45 was answered 400 and
\* no session exists
C26_Witness ==
    /\ startRequest.player_name = Alice /\ startRequest.game_mode = 45
    /\ startResponse.status = 400 /\ ~startResponse.success
    /\ game_runs = {}

----------------------------------------------------------------------------
(* C27 -- a Redeem presenting a secret whose hash does not match is       *)
(* answered InvalidSession whether or not a session with that run_id      *)
(* exists and whatever its state (unused, used, expired); it ends at the  *)
(* lookup and changes no session, so the answer tells the caller nothing  *)
(* about the run_id.                                                      *)
C27_WrongSecretSameAnswer ==
    [][\A q \in Redeems :
         (LookedUp(q) /\ ~SecretMatches(q)) =>
            /\ rresult'[q] = "InvalidSession"
            /\ rpc'[q] = "done"
            /\ game_runs' = game_runs]_vars

\* a wrong secret for a spent session was answered InvalidSession
C27_Witness ==
    \E q \in Redeems :
        /\ rresult[q] = "InvalidSession"
        /\ \E s \in Session(rreq[q].run_id) :
             s.used_at # NullTime /\ s.token_hash # Hash(rreq[q].token)

----------------------------------------------------------------------------
(* C28 -- a lookup of the existing row that returns an error fails the    *)
(* request: Submit never proceeds as if no record existed.  Seen from the *)
(* table: a request leaves the lookup for the INSERT only when the table  *)
(* holds no row for its key.                                              *)
C28_LookupErrorFails ==
    [][\A r \in Requests :
         (Selected(r) /\ pc'[r] = "insert") => Matching(body[r]) = {}]_vars

(* C29 -- once issued, a run session keeps its token_hash, issued_at,     *)
(* expires_at, game_mode and player_name and is never removed; used_at    *)
(* changes only from null to a timestamp, so it changes at most once and  *)
(* a spent session stays spent.                                           *)
C29_SessionImmutable ==
    [][\A s \in game_runs :
         \E n \in game_runs' :
            /\ n.id = s.id
            /\ n.token_hash = s.token_hash
            /\ n.issued_at = s.issued_at
            /\ n.expires_at = s.expires_at
            /\ n.game_mode = s.game_mode
            /\ n.player_name = s.player_name
            /\ (n.used_at # s.used_at => (s.used_at = NullTime /\ n.used_at = now))]_vars

\* a session was spent, time has passed, and a later redemption of it was
\* refused
C29_Witness ==
    /\ \E s \in game_runs : s.used_at # NullTime /\ s.used_at < now
    /\ \E q \in Redeems : rresult[q] = "SessionAlreadyUsed"

(* C30 -- for every key the stored score never decreases and its row is   *)
(* never deleted, whatever the interleaving of Submit requests: every row *)
(* is still there after a step, under the same key, with a score at least *)
(* as high.                                                               *)
C30_ScoreNeverDecreases ==
    [][\A row \in game_results :
         \E n \in game_results' :
            /\ n.id = row.id
            /\ n.player_name = row.player_name /\ n.game_mode = row.game_mode
            /\ n.score >= row.score]_vars

----------------------------------------------------------------------------
\* the failures of a Redeem
RedeemFailures == {"InvalidSession", "SessionExpired", "SessionAlreadyUsed", "TooFast"}

\* request q is answered in this step with a failure
Refused(q) == rresult'[q] # rresult[q] /\ rresult'[q] \in RedeemFailures

(* C31 -- a Redeem that fails with InvalidSession, SessionExpired,        *)
(* SessionAlreadyUsed or TooFast leaves every run session as it was, and  *)
(* a step that sets used_at of a session answers a redemption with ok.    *)
C31_FailedRedeemWritesNothing ==
    [][/\ \A q \in Redeems : Refused(q) => game_runs' = game_runs
       /\ \A s \in game_runs :
            (\E n \in game_runs' : n.id = s.id /\ n.used_at # s.used_at) =>
                \E q \in Redeems : rresult'[q] = "ok" /\ rresult[q] # "ok"]_vars

\* a too-early and a wrong-secret attempt were refused and the session they
\* named is still unspent
C31_Witness ==
    \E q1, q2 \in Redeems :
        /\ rresult[q1] = "TooFast"
        /\ rresult[q2] = "InvalidSession"
        /\ rreq[q1].run_id = rreq[q2].run_id
        /\ \E s \in Session(rreq[q1].run_id) : s.used_at = NullTime

----------------------------------------------------------------------------
(* C32 -- a score is recorded only under the player_name of a redeemed    *)
(* run session: once a session has been redeemed, every row of            *)
(* game_results has the player_name some redeemed session was issued for. *)
C32_PlayerOfRedeemedSession ==
    Spent # {} =>
        \A row \in game_results : \E s \in Spent : s.player_name = row.player_name

----------------------------------------------------------------------------
(* C33 -- the leaderboard order is deterministic: for the table as it is, *)
(* the sequence a Query returned is the sequence it returns for every     *)
(* order in which the store can hand over the rows of that game_mode.     *)
C33_OrderIndependent ==
    leaderboard.error = NULL =>
        \A data \in Selections(leaderboard.game_mode) :
            leaderboard.data = Slice(Sort(data), leaderboard.limit)

----------------------------------------------------------------------------
\* a submit request was answered with the failure of its INSERT or UPDATE
WriteFailed == \E r \in Requests : response[r].status = 500

(* C34 -- a session burned by a failed write is not retryable: once a     *)
(* session has been redeemed, every issued session is spent and a submit  *)
(* request has failed on its write, no request records a row, since a     *)
(* retry can only present a spent token.                                  *)
C34_BurnedSessionNotRetryable ==
    [][(WriteFailed /\ Spent # {} /\ game_runs = Spent) =>
          \A r \in Requests : ~Wrote(r)]_vars

----------------------------------------------------------------------------
(* The typing game *)

\* endGame has run for the game on screen
Finished == game.testFinished

(* C35 -- the score and the rank endGame computes for a finished game are *)
(* those calculateScore and calculateRank return for the same lps,        *)
(* accuracy, game mode, error positions, corrected errors and letters.    *)
C35_ClientAgreesWithServer ==
    Finished =>
        /\ game.finalScore =
              calculateScoreOf(game.lettersPerSecond, game.accuracy, game.gameMode,
                               Cardinality(game.errorPositions),
                               Cardinality(game.correctedErrors), game.totalLetters)
        /\ game.rank = calculateRankOf(game.finalScore, game.accuracy)

\* a 30-word game with corrected and uncorrected errors that earned a rank
\* above the lowest
C35_Witness ==
    /\ Finished
    /\ game.gameMode = 30
    /\ game.correctedErrors # {}
    /\ game.correctedErrors # game.errorPositions
    /\ game.rank \notin {NULL, "Typing Rookie"}

----------------------------------------------------------------------------
\* baseScore of the route's score-consistency check: lps * (accuracy/100)^2
WindowBase(c) == Rat(c.lps * c.accuracy * c.accuracy, 10000)

(* C36 -- every score calculateScore returns for lps and accuracy in      *)
(* [0, 100], game_mode 15 or 30 and correctedErrors <= totalErrors <=     *)
(* totalLetters lies in the route's window: 0.9 * b <= score <= 1.5 * b   *)
(* with b = lps * (accuracy/100)^2.                                       *)
C36_ScoreInsideWindow ==
    scoreCall.returned =>
        /\ RLeq(RMul(Rat(9, 10), WindowBase(scoreCall)), scoreCall.finalScore)
        /\ RLeq(scoreCall.finalScore, RMul(Rat(15, 10), WindowBase(scoreCall)))

\* a 30-word game whose few errors were all corrected: the score is more
\* than 1.38 times the base
C36_Witness ==
    /\ scoreCall.returned
    /\ scoreCall.gameMode = 30
    /\ scoreCall.lps > 0 /\ scoreCall.accuracy > 0
    /\ scoreCall.correctedErrors > 0
    /\ ~RLeq(scoreCall.finalScore, RMul(Rat(138, 100), WindowBase(scoreCall)))

----------------------------------------------------------------------------
\* route.ts 100-109 on fractions: msDifference > tolerance, where 1000 / 0
\* is Infinity
msMismatch(ms_per_letter, lps, tolerance) ==
    IF lps.num = 0 THEN TRUE
    ELSE LET expectedMsPerLetter == Rat(1000 * lps.den, lps.num)
             difference   == RSub(ms_per_letter, expectedMsPerLetter)
             msDifference == IF difference.num < 0
                             THEN Rat(0 - difference.num, difference.den) ELSE difference
         IN  ~RLeq(msDifference, Rat(tolerance, 1))

\* the finished game took a whole number of seconds inside the window of
\* its mode
PlayedWithinWindow ==
    /\ game.durationMs % 1000 = 0
    /\ TimeWithinWindow([game_mode |-> game.gameMode, time |-> game.durationMs \div 1000])

(* C37 -- a finished game whose duration lies in the window of its mode   *)
(* passes the ms_per_letter gate with the values the client sends: lps    *)
(* rounded to two decimals and ms_per_letter rounded to a whole number    *)
(* are within the server's 10 ms of each other.                           *)
C37_HonestPassesMsGate ==
    (Finished /\ PlayedWithinWindow) =>
        ~msMismatch(game.saved.ms_per_letter, game.saved.lps, 10)

----------------------------------------------------------------------------
(* C38 -- when a game has ended, errorPositions.size - correctedErrors.size *)
(* is the number of positions whose last typed character is wrong, the      *)
(* letters left marked as errors.                                           *)
C38_UncorrectedAreFinalErrors ==
    Finished =>
        Cardinality(game.errorPositions) - Cardinality(game.correctedErrors)
            = Cardinality(game.errorClass)

====
